---- MODULE Spec2Model ----
(***************************************************************************)
(* A model of pokercraft.py: the CSV loader, the filter, the aggregations  *)
(* and the main pipeline.                                                  *)
(*                                                                         *)
(* Representation.                                                         *)
(*  - A Python str is a sequence of one-character strings, so that strip,  *)
(*    replace and the parsers are computed character by character.         *)
(*  - An Optional value is a sequence of length at most one: None is <<>>  *)
(*    and a present value x is <<x>>.                                      *)
(*  - A float amount is a fixed-point integer counting 1/Scale units       *)
(*    (hundredths); the cells used here have at most two decimals and no   *)
(*    exponent, "nan" or "inf" spelling.  A quotient is kept exact as a    *)
(*    pair <<numerator, denominator>>.                                     *)
(*  - A datetime is the tuple <<Y, m, d, H, M, S>>, ordered                *)
(*    lexicographically as datetime orders naive values.                   *)
(***************************************************************************)
EXTENDS Integers, Sequences, FiniteSets, TLC

\* ------------------------------------------------------------------
\* Optional values and strings
\* ------------------------------------------------------------------

None == <<>>

Some(x) == <<x>>

IsNone(o) == o = <<>>

Val(o) == o[1]

Scale == 100

DigitChars == <<"0", "1", "2", "3", "4", "5", "6", "7", "8", "9">>

IsDigit(c) == \E i \in 1..10 : DigitChars[i] = c

DigitVal(c) == (CHOOSE i \in 1..10 : DigitChars[i] = c) - 1

IsSpace(c) == c \in {" ", "\t"}

\* the characters of s from position a to position b (empty when a > b)
Slice(s, a, b) == [i \in 1..(IF b >= a THEN b - a + 1 ELSE 0) |-> s[a + i - 1]]

AllDigits(s) == \A i \in 1..Len(s) : IsDigit(s[i])

RECURSIVE DigitsValue(_)
DigitsValue(s) ==
    IF Len(s) = 0 THEN 0
    ELSE 10 * DigitsValue(Slice(s, 1, Len(s) - 1)) + DigitVal(s[Len(s)])

\* str.strip()
strip(s) ==
    LET keep == {i \in 1..Len(s) : ~IsSpace(s[i])}
    IN  IF keep = {} THEN <<>>
        ELSE LET lo == CHOOSE i \in keep : \A j \in keep : i <= j
                 hi == CHOOSE i \in keep : \A j \in keep : i >= j
             IN  Slice(s, lo, hi)

\* str.replace(",", ".")
replace_comma(s) == [i \in 1..Len(s) |-> IF s[i] = "," THEN "." ELSE s[i]]

\* ------------------------------------------------------------------
\* to_float, to_int
\* ------------------------------------------------------------------

\* the first two decimals of a digit string, as hundredths
FracValue(s) ==
    (IF Len(s) >= 1 THEN DigitVal(s[1]) * 10 ELSE 0)
    + (IF Len(s) >= 2 THEN DigitVal(s[2]) ELSE 0)

\* float(s) on an unsigned decimal literal: digits [. digits] or . digits
\* (None stands for ValueError)
FloatUnsigned(s) ==
    LET dots == {i \in 1..Len(s) : s[i] = "."}
    IN  IF dots = {}
        THEN IF Len(s) > 0 /\ AllDigits(s) THEN Some(DigitsValue(s) * Scale) ELSE None
        ELSE IF Cardinality(dots) > 1 THEN None
        ELSE LET p == CHOOSE i \in dots : TRUE
                 ip == Slice(s, 1, p - 1)
                 fp == Slice(s, p + 1, Len(s))
             IN  IF AllDigits(ip) /\ AllDigits(fp) /\ Len(ip) + Len(fp) > 0
                 THEN Some(DigitsValue(ip) * Scale + FracValue(fp))
                 ELSE None

\* float(s): surrounding whitespace is ignored, then an optional sign
PyFloat(s) ==
    LET t == strip(s)
    IN  IF Len(t) = 0 THEN None
        ELSE IF t[1] = "-"
             THEN LET u == FloatUnsigned(Slice(t, 2, Len(t)))
                  IN  IF IsNone(u) THEN None ELSE Some(0 - Val(u))
        ELSE IF t[1] = "+" THEN FloatUnsigned(Slice(t, 2, Len(t)))
        ELSE FloatUnsigned(t)

\* int(s): surrounding whitespace is ignored, then an optional sign and digits
PyInt(s) ==
    LET t == strip(s)
        body == IF Len(t) > 0 /\ t[1] \in {"-", "+"} THEN Slice(t, 2, Len(t)) ELSE t
    IN  IF Len(body) = 0 \/ ~AllDigits(body) THEN None
        ELSE IF t[1] = "-" THEN Some(0 - DigitsValue(body))
        ELSE Some(DigitsValue(body))

\* to_float(value): value is an Optional str
to_float(value) ==
    IF IsNone(value) \/ Val(value) = <<>> THEN 0
    ELSE LET r == PyFloat(replace_comma(Val(value)))
         IN  IF IsNone(r) THEN 0 ELSE Val(r)

\* to_int(value): value is an Optional str; the result is an Optional int
to_int(value) ==
    IF IsNone(value) \/ Val(value) = <<>> THEN None
    ELSE PyInt(Val(value))

\* ------------------------------------------------------------------
\* datetime.strptime and parse_date
\* ------------------------------------------------------------------

CharAt(s, i) == IF i >= 1 /\ i <= Len(s) THEN s[i] ELSE "$"

DigitAt(s, i) == IsDigit(CharAt(s, i))

InRange(c, lo, hi) == IsDigit(c) /\ DigitVal(c) >= lo /\ DigitVal(c) <= hi

\* The number of characters the directive's regular expression takes at
\* position i, its alternatives tried in their written order (0: no match).
DirectiveWidth(dir, s, i) ==
    LET a == CharAt(s, i)
        b == CharAt(s, i + 1)
    IN  CASE dir = "%Y" ->
               IF DigitAt(s, i) /\ DigitAt(s, i + 1) /\ DigitAt(s, i + 2) /\ DigitAt(s, i + 3)
               THEN 4 ELSE 0
          [] dir = "%m" ->
               IF a = "1" /\ InRange(b, 0, 2) THEN 2
               ELSE IF a = "0" /\ InRange(b, 1, 9) THEN 2
               ELSE IF InRange(a, 1, 9) THEN 1 ELSE 0
          [] dir = "%d" ->
               IF a = "3" /\ InRange(b, 0, 1) THEN 2
               ELSE IF InRange(a, 1, 2) /\ IsDigit(b) THEN 2
               ELSE IF a = "0" /\ InRange(b, 1, 9) THEN 2
               ELSE IF InRange(a, 1, 9) THEN 1
               ELSE IF a = " " /\ InRange(b, 1, 9) THEN 2 ELSE 0
          [] dir = "%H" ->
               IF a = "2" /\ InRange(b, 0, 3) THEN 2
               ELSE IF InRange(a, 0, 1) /\ IsDigit(b) THEN 2
               ELSE IF IsDigit(a) THEN 1 ELSE 0
          [] dir = "%M" ->
               IF InRange(a, 0, 5) /\ IsDigit(b) THEN 2
               ELSE IF IsDigit(a) THEN 1 ELSE 0
          [] dir = "%S" ->
               IF a = "6" /\ InRange(b, 0, 1) THEN 2
               ELSE IF InRange(a, 0, 5) /\ IsDigit(b) THEN 2
               ELSE IF IsDigit(a) THEN 1 ELSE 0

IsDirective(tok) == tok \in {"%Y", "%m", "%d", "%H", "%M", "%S"}

\* the number matched by a directive (a leading space of %d is not a digit)
FieldValue(s, i, w) ==
    IF CharAt(s, i) = " " THEN DigitsValue(Slice(s, i + 1, i + w - 1))
    ELSE DigitsValue(Slice(s, i, i + w - 1))

\* the first position at or after i that holds no whitespace
RECURSIVE SkipSpaces(_, _)
SkipSpaces(s, i) == IF IsSpace(CharAt(s, i)) THEN SkipSpaces(s, i + 1) ELSE i

\* Matches the format's tokens from token k on against s from position i.
\* acc maps the directives matched so far to their values.  None: no match,
\* or unconverted data remains.
RECURSIVE MatchFormat(_, _, _, _, _)
MatchFormat(s, i, fmt, k, acc) ==
    IF k > Len(fmt)
    THEN IF i = Len(s) + 1 THEN Some(acc) ELSE None
    ELSE LET tok == fmt[k]
         IN  IF IsDirective(tok)
             THEN LET w == DirectiveWidth(tok, s, i)
                  IN  IF w = 0 THEN None
                      ELSE MatchFormat(s, i + w, fmt, k + 1,
                                       [acc EXCEPT ![tok] = FieldValue(s, i, w)])
             ELSE IF tok = " "
             THEN IF IsSpace(CharAt(s, i))
                  THEN MatchFormat(s, SkipSpaces(s, i), fmt, k + 1, acc)
                  ELSE None
             ELSE IF CharAt(s, i) = tok
                  THEN MatchFormat(s, i + 1, fmt, k + 1, acc)
                  ELSE None

IsLeap(y) == (y % 4 = 0 /\ y % 100 # 0) \/ y % 400 = 0

DaysInMonth(y, m) ==
    IF m = 2 THEN (IF IsLeap(y) THEN 29 ELSE 28)
    ELSE IF m \in {4, 6, 9, 11} THEN 30 ELSE 31

\* datetime.strptime(s, fmt): Some(<<Y, m, d, H, M, S>>), or None for ValueError
strptime(s, fmt) ==
    LET start == [t \in {"%Y", "%m", "%d", "%H", "%M", "%S"} |->
                     IF t = "%Y" THEN 1900 ELSE IF t \in {"%m", "%d"} THEN 1 ELSE 0]
        r == MatchFormat(s, 1, fmt, 1, start)
    IN  IF IsNone(r) THEN None
        ELSE LET f == Val(r)
             IN  IF f["%Y"] >= 1 /\ f["%d"] <= DaysInMonth(f["%Y"], f["%m"]) /\ f["%S"] <= 59
                 THEN Some(<<f["%Y"], f["%m"], f["%d"], f["%H"], f["%M"], f["%S"]>>)
                 ELSE None

FmtYmd == <<"%Y", "-", "%m", "-", "%d">>

FmtDmy == <<"%d", ".", "%m", ".", "%Y">>

FmtHM == <<" ", "%H", ":", "%M">>

FmtHMS == <<" ", "%H", ":", "%M", ":", "%S">>

\* the list `formats` of parse_date, in its order
formats ==
    << FmtYmd, FmtYmd \o FmtHM, FmtYmd \o FmtHMS,
       FmtDmy, FmtDmy \o FmtHM, FmtDmy \o FmtHMS >>

RECURSIVE TryFormats(_, _)
TryFormats(s, k) ==
    IF k > Len(formats) THEN None
    ELSE LET r == strptime(strip(s), formats[k])
         IN  IF IsNone(r) THEN TryFormats(s, k + 1) ELSE r

\* parse_date(value): value is an Optional str
parse_date(value) ==
    IF IsNone(value) \/ Val(value) = <<>> THEN None
    ELSE TryFormats(Val(value), 1)

\* datetime comparison a < b
RECURSIVE LexLess(_, _, _)
LexLess(a, b, k) ==
    IF k > Len(a) THEN FALSE
    ELSE IF a[k] # b[k] THEN a[k] < b[k]
    ELSE LexLess(a, b, k + 1)

DateLess(a, b) == LexLess(a, b, 1)

\* ------------------------------------------------------------------
\* csv.DictReader rows and load_summaries
\* ------------------------------------------------------------------

required_fields == <<"Date", "Tournament", "BuyIn", "Result">>

Range(f) == {f[i] : i \in DOMAIN f}

\* The dict DictReader builds for one line: the header's names zipped with
\* the cells; a name beyond the last cell gets restval, which is None.
\* (Cells beyond the header go under the key None, which nothing reads.)
DictRow(fieldnames, cells) ==
    [name \in Range(fieldnames) |->
        LET k == CHOOSE i \in DOMAIN fieldnames : fieldnames[i] = name
        IN  IF k <= Len(cells) THEN Some(cells[k]) ELSE None]

\* row.get(key)
Get(row, key) == IF key \in DOMAIN row THEN row[key] ELSE None

\* row.get(key, default)
GetDefault(row, key, default) == IF key \in DOMAIN row THEN row[key] ELSE Some(default)

UNKNOWN == <<"U", "N", "K", "N", "O", "W", "N">>

Unknown == <<"U", "n", "k", "n", "o", "w", "n">>

\* x.strip() or default, for a str x
StripOr(x, default) == IF strip(x) = <<>> THEN default ELSE strip(x)

\* The profit of a row read from the Profit cell of the input instead.
RowProfitFromInput(row, prize, buyin) == to_float(Get(row, "Profit"))

\* The profit of a row, from its parsed Result and BuyIn cells.
RowProfit(row, prize, buyin) == prize - buyin

\* The tournament field of a record.
RowTournament(row) == GetDefault(row, "Tournament", Unknown)

\* The body of "for row in reader".  kind is "record" (the record is
\* appended), "skip" (the date did not parse) or "raise" (AttributeError:
\* the Currency or Type value is None, which has no strip).
RowOutcome(row) ==
    LET d == parse_date(Get(row, "Date"))
        buyin == to_float(Get(row, "BuyIn"))
        prize == to_float(Get(row, "Result"))
        rake == IF "Rake" \in DOMAIN row THEN to_float(Get(row, "Rake")) ELSE 0
        placement == to_int(Get(row, "Placement"))
        field_size == to_int(Get(row, "FieldSize"))
        cur == GetDefault(row, "Currency", <<>>)
        typ == GetDefault(row, "Type", <<>>)
    IN  IF IsNone(cur) \/ IsNone(typ) THEN [kind |-> "raise", rec |-> <<>>]
        ELSE IF IsNone(d) THEN [kind |-> "skip", rec |-> <<>>]
        ELSE [kind |-> "record",
              rec |-> [date |-> Val(d),
                       tournament |-> RowTournament(row),
                       buyin_total |-> buyin,
                       rake |-> rake,
                       prize |-> prize,
                       profit |-> RowProfit(row, prize, buyin),
                       placement |-> placement,
                       field_size |-> field_size,
                       currency |-> StripOr(Val(cur), UNKNOWN),
                       t_type |-> StripOr(Val(typ), Unknown)]]

\* "for row in reader" from line k on.  A line whose read faults (a decoding
\* or I/O error, csv.Error) and a row that raises both leave the loop through
\* the except clause of the file, with the records appended so far kept.
\* DictReader passes over a line with no cells.
RECURSIVE ReadRows(_, _, _, _)
ReadRows(recs, fieldnames, lines, k) ==
    IF k > Len(lines) THEN recs
    ELSE IF lines[k].fault THEN recs
    ELSE IF lines[k].cells = <<>> THEN ReadRows(recs, fieldnames, lines, k + 1)
    ELSE LET o == RowOutcome(DictRow(fieldnames, lines[k].cells))
         IN  IF o.kind = "raise" THEN recs
             ELSE IF o.kind = "skip" THEN ReadRows(recs, fieldnames, lines, k + 1)
             ELSE ReadRows(Append(recs, o.rec), fieldnames, lines, k + 1)

\* The columns of required_fields the header lacks.
Missing(fieldnames) ==
    {required_fields[i] : i \in {j \in DOMAIN required_fields :
                                     required_fields[j] \notin Range(fieldnames)}}

\* One iteration of "for file in files".  A file that does not open, and an
\* empty file (fieldnames is None, so "c not in reader.fieldnames" raises
\* TypeError), end in the except clause; a header lacking a required column
\* ends in "continue".
LoadFile(recs, file) ==
    IF ~file.opens THEN recs
    ELSE IF IsNone(file.fieldnames) THEN recs
    ELSE IF Missing(Val(file.fieldnames)) # {} THEN recs
    ELSE ReadRows(recs, Val(file.fieldnames), file.lines, 1)

RECURSIVE LoadFrom(_, _, _)
LoadFrom(recs, fs, k) ==
    IF k > Len(fs) THEN recs ELSE LoadFrom(LoadFile(recs, fs[k]), fs, k + 1)

load_summaries(fs) == LoadFrom(<<>>, fs, 1)

\* ------------------------------------------------------------------
\* filter_records
\* ------------------------------------------------------------------

\* truth value of an Optional str: None and "" are false
Truthy(o) == ~IsNone(o) /\ Val(o) # <<>>

\* "if currency and r.currency != currency: continue"
CurrencyDrops(r, currency) == Truthy(currency) /\ r.currency # Val(currency)

\* "if d_min and r.date < d_min: continue" (a datetime is always true)
MinDrops(r, d_min) == ~IsNone(d_min) /\ DateLess(r.date, Val(d_min))

\* MaxDrops with the whole maxDate day let through
MaxDropsWholeDay(r, d_max) ==
    ~IsNone(d_max) /\ DateLess(<<Val(d_max)[1], Val(d_max)[2], Val(d_max)[3], 23, 59, 59>>, r.date)

\* "if d_max and r.date > d_max: continue"
MaxDrops(r, d_max) == ~IsNone(d_max) /\ DateLess(Val(d_max), r.date)

RECURSIVE FilterLoop(_, _, _, _, _, _)
FilterLoop(recs, currency, d_min, d_max, k, result) ==
    IF k > Len(recs) THEN result
    ELSE IF CurrencyDrops(recs[k], currency) \/ MinDrops(recs[k], d_min)
            \/ MaxDrops(recs[k], d_max)
         THEN FilterLoop(recs, currency, d_min, d_max, k + 1, result)
         ELSE FilterLoop(recs, currency, d_min, d_max, k + 1, Append(result, recs[k]))

\* filter_records(records, currency, min_date, max_date): the arguments are
\* Optional strs.  raised: strptime raised ValueError on min_date or max_date.
filter_records(recs, currency, min_date, max_date) ==
    LET d_min == IF Truthy(min_date) THEN strptime(Val(min_date), FmtYmd) ELSE None
        d_max == IF Truthy(max_date) THEN strptime(Val(max_date), FmtYmd) ELSE None
    IN  IF (Truthy(min_date) /\ IsNone(d_min)) \/ (Truthy(max_date) /\ IsNone(d_max))
        THEN [raised |-> TRUE, result |-> <<>>]
        ELSE [raised |-> FALSE,
              result |-> FilterLoop(recs, currency, d_min, d_max, 1, <<>>)]

\* ------------------------------------------------------------------
\* aggregation
\* ------------------------------------------------------------------

\* the literals of get_limit_group
TierLow == 5

TierMid == 22

TierHigh == 109

Micro == "Micro (0-5)"

Low == "Low (5-22)"

Mid == "Mid (22-109)"

High == "High (109+)"

\* get_limit_group with the boundaries taken into the lower tier
get_limit_group_inclusive(buyin) ==
    IF buyin <= TierLow * Scale THEN Micro
    ELSE IF buyin <= TierMid * Scale THEN Low
    ELSE IF buyin <= TierHigh * Scale THEN Mid
    ELSE High

get_limit_group(buyin) ==
    IF buyin < TierLow * Scale THEN Micro
    ELSE IF buyin < TierMid * Scale THEN Low
    ELSE IF buyin < TierHigh * Scale THEN Mid
    ELSE High

\* an exact quotient n / d
Ratio(n, d) == <<n, d>>

RECURSIVE SumOver(_, _)
SumOver(vals, k) == IF k > Len(vals) THEN 0 ELSE vals[k] + SumOver(vals, k + 1)

\* sum(...) of a generator over the records
Sum(vals) == SumOver(vals, 1)

aggregate_overall(recs) ==
    LET total_buyin == Sum([i \in DOMAIN recs |-> recs[i].buyin_total])
        total_prize == Sum([i \in DOMAIN recs |-> recs[i].prize])
        profit == total_prize - total_buyin
        itm_count == Sum([i \in DOMAIN recs |-> IF recs[i].prize > 0 THEN 1 ELSE 0])
        total == Len(recs)
    IN  [total_tournaments |-> total,
         total_buyin |-> total_buyin,
         total_prize |-> total_prize,
         total_profit |-> profit,
         roi_percent |-> IF total_buyin > 0 THEN Ratio(profit * 100, total_buyin)
                         ELSE Ratio(0, 1),
         itm_percent |-> IF total > 0 THEN Ratio(itm_count * 100, total) ELSE Ratio(0, 1),
         abi |-> IF total > 0 THEN Ratio(total_buyin, total) ELSE Ratio(0, 1)]

\* the position of key g in the insertion-ordered dict, 0 when absent
KeyIndex(groups, g) ==
    IF \E i \in DOMAIN groups : groups[i].key = g
    THEN CHOOSE i \in DOMAIN groups : groups[i].key = g
    ELSE 0

\* The first loop of aggregate_by_limits and aggregate_by_type: keys[k] is
\* the key of recs[k].  The dict is the sequence of its entries in insertion
\* order.
RECURSIVE Accumulate(_, _, _, _)
Accumulate(recs, keys, k, groups) ==
    IF k > Len(recs) THEN groups
    ELSE LET g == keys[k]
             r == recs[k]
             gs == IF KeyIndex(groups, g) = 0
                   THEN Append(groups, [key |-> g, count |-> 0, buyin |-> 0,
                                        prize |-> 0, profit |-> 0])
                   ELSE groups
             j == KeyIndex(gs, g)
         IN  Accumulate(recs, keys, k + 1,
                        [gs EXCEPT ![j] = [key |-> g,
                                           count |-> @.count + 1,
                                           buyin |-> @.buyin + r.buyin_total,
                                           prize |-> @.prize + r.prize,
                                           profit |-> @.profit + r.profit]])

\* The second loop: roi_percent and abi of every group.
Derive(groups) ==
    [i \in DOMAIN groups |->
        [key |-> groups[i].key,
         count |-> groups[i].count,
         buyin |-> groups[i].buyin,
         prize |-> groups[i].prize,
         profit |-> groups[i].profit,
         roi_percent |-> IF groups[i].buyin > 0
                         THEN Ratio(groups[i].profit * 100, groups[i].buyin)
                         ELSE Ratio(0, 1),
         abi |-> IF groups[i].count > 0 THEN Ratio(groups[i].buyin, groups[i].count)
                 ELSE Ratio(0, 1)]]

aggregate_by_limits(recs) ==
    Derive(Accumulate(recs, [i \in DOMAIN recs |-> get_limit_group(recs[i].buyin_total)],
                      1, <<>>))

aggregate_by_type(recs) ==
    Derive(Accumulate(recs, [i \in DOMAIN recs |-> recs[i].t_type], 1, <<>>))

\* ------------------------------------------------------------------
\* save_aggregated_csv, discover_files
\* ------------------------------------------------------------------

\* The data rows save_aggregated_csv writes (the date kept as a datetime,
\* its text form is not modelled).
CsvRow(r) ==
    [date |-> r.date, tournament |-> r.tournament, buyin_total |-> r.buyin_total,
     rake |-> r.rake, prize |-> r.prize, profit |-> r.profit,
     placement |-> r.placement, field_size |-> r.field_size,
     currency |-> r.currency, type |-> r.t_type,
     limit_group |-> get_limit_group(r.buyin_total)]

CsvRows(recs) == [i \in DOMAIN recs |-> CsvRow(recs[i])]

RECURSIVE SelectExt(_, _, _)
SelectExt(entries, ext, k) ==
    IF k > Len(entries) THEN <<>>
    ELSE IF entries[k].ext = ext THEN <<entries[k]>> \o SelectExt(entries, ext, k + 1)
    ELSE SelectExt(entries, ext, k + 1)

\* discover_files(path, mode) on an existing path: a file is returned
\* whatever its name, a directory gives its files of the mode's extension.
discover_files(inp, mode) ==
    IF inp.kind = "file" THEN inp.entries
    ELSE SelectExt(inp.entries, IF mode = "summaries" THEN ".csv" ELSE ".txt", 1)

\* ------------------------------------------------------------------
\* State
\* ------------------------------------------------------------------

VARIABLES
    pc,         \* the position in main, or in a single call
    input,      \* what --input names: [kind, entries]
    args,       \* the parsed command line
    files,      \* main's files
    records,    \* main's records
    summary,    \* main's summary
    limits,     \* main's limits
    types,      \* main's types
    csv_out,    \* the data rows of tournaments_aggregated.csv
    exit_code,  \* the process exit status, -1 while running
    fatal,      \* which exit was taken
    inp,        \* the arguments of a single call
    out         \* the value a single call returned

vars == <<pc, input, args, files, records, summary, limits, types, csv_out,
          exit_code, fatal, inp, out>>

mainVars == <<input, args, files, records, summary, limits, types, csv_out,
              exit_code, fatal>>

SeqsUpTo(S, n) == UNION {[1..k -> S] : k \in 0..n}

\* ------------------------------------------------------------------
\* Cells, lines and files
\* ------------------------------------------------------------------

D_0102 == <<"2", "0", "2", "4", "-", "0", "1", "-", "0", "2">>

D_0103_1030 == <<"2", "0", "2", "4", "-", "0", "1", "-", "0", "3", " ", "1", "0", ":", "3", "0">>

D_dmy_0103 == <<"0", "3", ".", "0", "1", ".", "2", "0", "2", "4">>

D_bad == <<"n", "/", "a">>

S_USD == <<"U", "S", "D">>

S_EUR == <<"E", "U", "R">>

S_usd == <<"u", "s", "d">>

S_MTT == <<"M", "T", "T">>

S_SNG == <<"S", "N", "G">>

S_Sunday == <<"S", "u", "n", "d", "a", "y">>

HeaderFull ==
    <<"Date", "Tournament", "BuyIn", "Result", "Rake", "Placement", "FieldSize",
      "Currency", "Type", "Profit">>

HeaderRequired == <<"Date", "Tournament", "BuyIn", "Result">>

HeaderNoResult == <<"Date", "Tournament", "BuyIn">>

Line(cells) == [fault |-> FALSE, cells |-> cells]

\* a line whose read raises (UnicodeDecodeError, OSError, csv.Error)
FaultLine == [fault |-> TRUE, cells |-> <<>>]

\* 2024-01-02,Sunday,10,25,1,3,100,USD,MTT,99
L_good ==
    Line(<<D_0102, S_Sunday, <<"1", "0">>, <<"2", "5">>, <<"1">>, <<"3">>,
           <<"1", "0", "0">>, S_USD, S_MTT, <<"9", "9">>>>)

\* "2024-01-03 10:30",T,"1,5",abc,x,x,7.5, EUR , SNG ,
L_odd ==
    Line(<<D_0103_1030, <<"T">>, <<"1", ",", "5">>, <<"a", "b", "c">>, <<"x">>, <<"x">>,
           <<"7", ".", "5">>, <<" ", "E", "U", "R", " ">>, <<" ", "S", "N", "G", " ">>, <<>>>>)

\* 03.01.2024,,,,,,,,,      every cell but the date blank
L_blank == Line(<<D_dmy_0103, <<>>, <<>>, <<>>, <<>>, <<>>, <<>>, <<" ">>, <<>>, <<>>>>)

\* 2024-01-02,T,-5,0,0,0,-3,USD,MTT,
L_negative ==
    Line(<<D_0102, <<"T">>, <<"-", "5">>, <<"0">>, <<"0">>, <<"0">>, <<"-", "3">>,
           S_USD, S_MTT, <<>>>>)

\* ,T,10,0,0,1,9,USD,MTT,     no date
L_nodate ==
    Line(<<<<>>, <<"T">>, <<"1", "0">>, <<"0">>, <<"0">>, <<"1">>, <<"9">>, S_USD, S_MTT, <<>>>>)

\* n/a,T,10,0,0,1,9,USD,MTT,  a date no format matches
L_baddate ==
    Line(<<D_bad, <<"T">>, <<"1", "0">>, <<"0">>, <<"0">>, <<"1">>, <<"9">>, S_USD, S_MTT, <<>>>>)

\* 2024-01-02     a row with fewer cells than any header
L_short == Line(<<D_0102>>)

\* an empty line of the file
L_empty == Line(<<>>)

File(ext, opens, fieldnames, lines) ==
    [ext |-> ext, opens |-> opens, fieldnames |-> fieldnames, lines |-> lines]

\* a file that cannot be opened (permissions, unknown encoding)
F_unopenable == File(".csv", FALSE, None, <<>>)

\* a file of no bytes: DictReader.fieldnames is None
F_empty == File(".csv", TRUE, None, <<>>)

\* ------------------------------------------------------------------
\* A single call of load_summaries
\* ------------------------------------------------------------------

MaxLoadFiles == 2

MaxLoadLines == 2

LoadLinePool ==
    {L_good, L_odd, L_blank, L_negative, L_nodate, L_baddate, L_short, L_empty, FaultLine}

LoadFilePool ==
    {File(".csv", TRUE, Some(h), ls) :
        h \in {HeaderFull, HeaderRequired}, ls \in SeqsUpTo(LoadLinePool, MaxLoadLines)}
    \cup {File(".csv", TRUE, Some(HeaderNoResult), <<L_good>>), F_unopenable, F_empty}

IdleMain ==
    /\ input = [kind |-> "none", entries |-> <<>>]
    /\ args = <<>>
    /\ files = <<>>
    /\ records = <<>>
    /\ summary = <<>>
    /\ limits = <<>>
    /\ types = <<>>
    /\ csv_out = <<>>
    /\ exit_code = -1
    /\ fatal = "none"

InitLoad ==
    /\ pc = "call"
    /\ inp \in [files : SeqsUpTo(LoadFilePool, MaxLoadFiles)]
    /\ out = <<>>
    /\ IdleMain

LoadCall ==
    /\ pc = "call"
    /\ out' = load_summaries(inp.files)
    /\ pc' = "returned"
    /\ UNCHANGED <<inp, mainVars>>

NextLoad == LoadCall

SpecLoad == InitLoad /\ [][NextLoad]_vars

\* ---- the loader's claims ----

\* the file opens and its header declares every required column
OpensWithColumns(f) ==
    /\ f.opens
    /\ ~IsNone(f.fieldnames)
    /\ \A i \in DOMAIN required_fields : required_fields[i] \in Range(Val(f.fieldnames))

NoFault(f) == \A k \in DOMAIN f.lines : ~f.lines[k].fault

\* the Date cell of line k of f: None when the row ends before that column
DateCell(f, k) ==
    LET h == Val(f.fieldnames)
        c == CHOOSE i \in DOMAIN h : h[i] = "Date"
    IN  IF c <= Len(f.lines[k].cells) THEN Some(f.lines[k].cells[c]) ELSE None

\* line k of f is a row (it has cells) whose Date cell parses
DatedRow(f, k) == f.lines[k].cells # <<>> /\ ~IsNone(parse_date(DateCell(f, k)))

\* the lines of f that are rows with a parseable date, in order
DatedRows(f) ==
    LET Dated(k) == DatedRow(f, k)
    IN  SelectSeq([k \in DOMAIN f.lines |-> k], Dated)

\* C2: a file that opens and declares the four required columns gives
\* exactly one record for each row whose Date cell parses, in row order,
\* and none for the other rows, whatever the other cells of the row are
\* (blank, malformed, or absent because the row is shorter than the header).
C2_OneRecordPerDatedRow ==
    (pc = "returned" /\ Len(inp.files) = 1 /\ OpensWithColumns(inp.files[1])
        /\ NoFault(inp.files[1]))
    => LET f == inp.files[1]
           rows == DatedRows(f)
       IN  /\ Len(out) = Len(rows)
           /\ \A j \in DOMAIN rows :
                 j \in DOMAIN out => Some(out[j].date) = parse_date(DateCell(f, rows[j]))

\* what the file contributes according to C3
Contribution(f) ==
    IF OpensWithColumns(f) /\ NoFault(f) THEN load_summaries(<<f>>) ELSE <<>>

RECURSIVE Concat(_, _)
Concat(seqs, k) == IF k > Len(seqs) THEN <<>> ELSE seqs[k] \o Concat(seqs, k + 1)

\* C3: the result is the concatenation, in file order, of the records of the
\* files that can be read to their end and declare the required columns; a
\* file that lacks a column, does not open, or faults at a row gives nothing.
C3_ConcatenationOfReadableFiles ==
    pc = "returned"
    => out = Concat([k \in DOMAIN inp.files |-> Contribution(inp.files[k])], 1)

\* C8: every record has a non-negative buyinTotal, and a placement and a
\* fieldSize that are each null or a positive integer.
C8_NonNegativeAndPositive ==
    pc = "returned"
    => \A i \in DOMAIN out :
          /\ out[i].buyin_total >= 0
          /\ IsNone(out[i].placement) \/ Val(out[i].placement) > 0
          /\ IsNone(out[i].field_size) \/ Val(out[i].field_size) > 0

\* the value of column name in line k of f: None when the row ends before it
\* or the header has no such column
CellOf(f, k, name) ==
    LET h == Val(f.fieldnames)
    IN  IF name \notin Range(h) THEN None
        ELSE LET c == CHOOSE i \in DOMAIN h : h[i] = name
             IN  IF c <= Len(f.lines[k].cells) THEN Some(f.lines[k].cells[c]) ELSE None

\* C9: every record has non-empty strings for tournament, currency and type:
\* tournament is "Unknown" when the row has no Tournament value, currency is
\* "UNKNOWN" and type is "Unknown" when the cell is blank or the column absent.
C9_NonEmptyStrings ==
    pc = "returned"
    => /\ \A i \in DOMAIN out :
             /\ ~IsNone(out[i].tournament) /\ Val(out[i].tournament) # <<>>
             /\ out[i].currency # <<>>
             /\ out[i].t_type # <<>>
       /\ (Len(inp.files) = 1 /\ OpensWithColumns(inp.files[1])
             /\ Len(inp.files[1].lines) = 1 /\ Len(out) = 1)
          => LET f == inp.files[1]
                 cur == CellOf(f, 1, "Currency")
                 typ == CellOf(f, 1, "Type")
             IN  /\ IsNone(CellOf(f, 1, "Tournament"))
                       => out[1].tournament = Some(Unknown)
                 /\ (IsNone(cur) \/ strip(Val(cur)) = <<>>) => out[1].currency = UNKNOWN
                 /\ (IsNone(typ) \/ strip(Val(typ)) = <<>>) => out[1].t_type = Unknown

\* ------------------------------------------------------------------
\* A single call of filter_records
\* ------------------------------------------------------------------

MaxFilterRecords == 2

A_0102 == Some(D_0102)

\* 2024/01/02: not in the form YYYY-MM-DD
A_slashes == Some(<<"2", "0", "2", "4", "/", "0", "1", "/", "0", "2">>)

A_empty == Some(<<>>)

CurrencyArgs == {None, A_empty, Some(S_USD), Some(S_usd)}

DateArgs == {None, A_empty, A_0102, A_slashes}

Rec(date, currency, buyin, prize, t_type) ==
    [date |-> date, tournament |-> Some(<<"T">>), buyin_total |-> buyin, rake |-> 0,
     prize |-> prize, profit |-> prize - buyin, placement |-> None, field_size |-> None,
     currency |-> currency, t_type |-> t_type]

FilterRecordPool ==
    {Rec(d, c, 10 * Scale, 0, S_MTT) :
        d \in {<<2024, 1, 1, 23, 59, 59>>, <<2024, 1, 2, 0, 0, 0>>,
               <<2024, 1, 2, 10, 30, 0>>, <<2024, 1, 3, 0, 0, 0>>},
        c \in {S_USD, S_EUR}}

IdleCall == out = <<>> /\ IdleMain

InitFilter ==
    /\ pc = "call"
    /\ inp \in [records : SeqsUpTo(FilterRecordPool, MaxFilterRecords),
                currency : CurrencyArgs, min_date : DateArgs, max_date : DateArgs]
    /\ IdleCall

FilterCall ==
    /\ pc = "call"
    /\ out' = filter_records(inp.records, inp.currency, inp.min_date, inp.max_date)
    /\ pc' = "returned"
    /\ UNCHANGED <<inp, mainVars>>

NextFilter == FilterCall

SpecFilter == InitFilter /\ [][NextFilter]_vars

\* ---- the filter's claim ----

\* midnight of the one well-formed date argument used
MidnightOf(a) == IF a = A_0102 THEN <<2024, 1, 2, 0, 0, 0>> ELSE <<0, 0, 0, 0, 0, 0>>

WellFormed(a) == a = A_0102

\* a >= b on datetimes
DateGeq(a, b) == a = b \/ DateLess(b, a)

\* the record passes the three conditions, an argument counting as given
\* when Given holds of it
Passes(r, currency, min_date, max_date, Given(_)) ==
    /\ ~Given(currency) \/ r.currency = Val(currency)
    /\ ~Given(min_date) \/ DateGeq(r.date, MidnightOf(min_date))
    /\ ~Given(max_date) \/ DateGeq(MidnightOf(max_date), r.date)

IsGiven(a) == ~IsNone(a)

IsGivenNonEmpty(a) == ~IsNone(a) /\ Val(a) # <<>>

\* C4 as stated: with each argument given or absent, the result is exactly
\* the records, in their order, whose currency equals the given one and
\* whose date lies between midnight of minDate and midnight of maxDate.
\* (Stated for dates that are absent or well-formed.)
C4_AsStated ==
    (pc = "returned" /\ (IsNone(inp.min_date) \/ WellFormed(inp.min_date))
        /\ (IsNone(inp.max_date) \/ WellFormed(inp.max_date)))
    => LET Keep(r) == Passes(r, inp.currency, inp.min_date, inp.max_date, IsGiven)
       IN  ~out.raised /\ out.result = SelectSeq(inp.records, Keep)

\* C4 amended: an argument that is absent or the empty string applies no
\* condition; a non-empty date argument that is not YYYY-MM-DD makes the call
\* raise; otherwise the result is exactly the records, in their order, whose
\* currency equals the argument and whose date is >= midnight of minDate and
\* <= midnight of maxDate.
C4_FilterIsExactSubsequence ==
    pc = "returned"
    => IF \/ IsGivenNonEmpty(inp.min_date) /\ ~WellFormed(inp.min_date)
          \/ IsGivenNonEmpty(inp.max_date) /\ ~WellFormed(inp.max_date)
       THEN out.raised
       ELSE LET Keep(r) ==
                    Passes(r, inp.currency, inp.min_date, inp.max_date, IsGivenNonEmpty)
            IN  ~out.raised /\ out.result = SelectSeq(inp.records, Keep)

\* a call with all three arguments given that drops the record later on the
\* maxDate day, keeps the one at midnight of it, and keeps the order
C4_Witness ==
    /\ pc = "returned"
    /\ inp.currency = Some(S_USD) /\ inp.min_date = A_0102 /\ inp.max_date = A_0102
    /\ inp.records = <<Rec(<<2024, 1, 2, 10, 30, 0>>, S_USD, 10 * Scale, 0, S_MTT),
                       Rec(<<2024, 1, 2, 0, 0, 0>>, S_USD, 10 * Scale, 0, S_MTT)>>
    /\ ~out.raised
    /\ out.result = <<Rec(<<2024, 1, 2, 0, 0, 0>>, S_USD, 10 * Scale, 0, S_MTT)>>

\* ------------------------------------------------------------------
\* Calls of get_limit_group
\* ------------------------------------------------------------------

\* the largest whole buy-in tried
MaxBuyin == 110

\* x.00 and x.99 for every whole x from -1 to MaxBuyin
TierBuyins == {u * Scale + c : u \in (-1)..MaxBuyin, c \in {0, Scale - 1}}

InitTier ==
    /\ pc = "call"
    /\ inp \in [a : TierBuyins, b : TierBuyins]
    /\ IdleCall

TierCall ==
    /\ pc = "call"
    /\ out' = [a |-> get_limit_group(inp.a), b |-> get_limit_group(inp.b)]
    /\ pc' = "returned"
    /\ UNCHANGED <<inp, mainVars>>

NextTier == TierCall

SpecTier == InitTier /\ [][NextTier]_vars

\* ---- the grouping policy's claim ----

TierRank(t) ==
    CASE t = Micro -> 1 [] t = Low -> 2 [] t = Mid -> 3 [] t = High -> 4 [] OTHER -> 0

\* the tier of the table of 4.4, in hundredths
TableTier(x) ==
    CASE x < 500 -> Micro
      [] x >= 500 /\ x < 2200 -> Low
      [] x >= 2200 /\ x < 10900 -> Mid
      [] x >= 10900 -> High

\* C5: get_limit_group gives every buy-in one of the four tiers: Micro below
\* 5, Low from 5 to below 22, Mid from 22 to below 109, High from 109 on;
\* and a larger buy-in never gets a lower tier.
C5_TierTable ==
    pc = "returned"
    => /\ out.a \in {Micro, Low, Mid, High}
       /\ out.a = TableTier(inp.a)
       /\ out.b = TableTier(inp.b)
       /\ inp.a <= inp.b => TierRank(out.a) <= TierRank(out.b)

\* 4.99 and 5.00 fall on the two sides of the first boundary
C5_Witness ==
    /\ pc = "returned"
    /\ inp.a = 499 /\ out.a = Micro
    /\ inp.b = 500 /\ out.b = Low

\* ------------------------------------------------------------------
\* A single call of each aggregation
\* ------------------------------------------------------------------

MaxAggRecords == 3

\* buy-ins 0, 3, 10, 150 and -5 (a BuyIn cell "-5"), prizes 0 and 25
AggRecordPool ==
    {Rec(<<2024, 1, 2, 0, 0, 0>>, S_USD, b * Scale, p * Scale, t) :
        b \in {0, 3, 10, 150, -5}, p \in {0, 25}, t \in {S_MTT, S_SNG}}

InitAgg ==
    /\ pc = "call"
    /\ inp \in [records : SeqsUpTo(AggRecordPool, MaxAggRecords)]
    /\ IdleCall

AggregateCall ==
    /\ pc = "call"
    /\ out' = [overall |-> aggregate_overall(inp.records),
               limits |-> aggregate_by_limits(inp.records),
               types |-> aggregate_by_type(inp.records)]
    /\ pc' = "returned"
    /\ UNCHANGED <<inp, mainVars>>

NextAgg == AggregateCall

SpecAgg == InitAgg /\ [][NextAgg]_vars

\* ---- the aggregations' claims ----

Abs(n) == IF n < 0 THEN 0 - n ELSE n

RECURSIVE Gcd(_, _)
Gcd(a, b) == IF b = 0 THEN a ELSE Gcd(b, a % b)

\* the quotient in lowest terms with a positive denominator
Lowest(x) ==
    LET g == Gcd(Abs(x[1]), Abs(x[2]))
    IN  <<(IF x[2] < 0 THEN 0 - x[1] ELSE x[1]) \div g, Abs(x[2]) \div g>>

\* equality of two quotients with non-zero denominators
RatEq(x, y) == x[2] # 0 /\ y[2] # 0 /\ Lowest(x) = Lowest(y)

IsZero(x) == x[2] # 0 /\ x[1] = 0

\* the sum of field f over the records at the indices in I
RECURSIVE FieldSum(_, _, _)
FieldSum(recs, I, f) ==
    IF I = {} THEN 0
    ELSE LET i == CHOOSE j \in I : TRUE
         IN  recs[i][f] + FieldSum(recs, I \ {i}, f)

\* C6: aggregate_overall returns the count, the two sums, their difference,
\* roi_percent = total_profit / total_buyin * 100 whenever total_buyin is not
\* 0 and 0 when it is 0, itm_percent and abi over the count when there are
\* records, and 0 for both when there are none.
C6_OverallFormulas ==
    pc = "returned"
    => LET recs == inp.records
           o == out.overall
           n == Len(recs)
           tb == FieldSum(recs, DOMAIN recs, "buyin_total")
           tp == FieldSum(recs, DOMAIN recs, "prize")
           itm == Cardinality({i \in DOMAIN recs : recs[i].prize > 0})
       IN  /\ o.total_tournaments = n
           /\ o.total_buyin = tb
           /\ o.total_prize = tp
           /\ o.total_profit = tp - tb
           /\ IF tb # 0 THEN RatEq(o.roi_percent, <<(tp - tb) * 100, tb>>)
              ELSE IsZero(o.roi_percent)
           /\ IF n > 0 THEN RatEq(o.itm_percent, <<itm * 100, n>>) /\ RatEq(o.abi, <<tb, n>>)
              ELSE IsZero(o.itm_percent) /\ IsZero(o.abi)

\* the indices of the first appearances of the keys, in order
FirstSeen(keys) ==
    LET First(i) == \A j \in 1..(i - 1) : keys[j] # keys[i]
    IN  SelectSeq([i \in DOMAIN keys |-> i], First)

\* groups is the grouping of recs by keys that C10 describes
GroupsAsClaimed(groups, recs, keys) ==
    LET firsts == FirstSeen(keys)
    IN  /\ Len(groups) = Len(firsts)
        /\ \A g \in DOMAIN groups :
              g \in DOMAIN firsts =>
              LET I == {i \in DOMAIN recs : keys[i] = keys[firsts[g]]}
                  v == groups[g]
              IN  /\ v.key = keys[firsts[g]]
                  /\ v.count = Cardinality(I)
                  /\ v.buyin = FieldSum(recs, I, "buyin_total")
                  /\ v.prize = FieldSum(recs, I, "prize")
                  /\ v.profit = FieldSum(recs, I, "profit")
                  /\ v.profit = v.prize - v.buyin
                  /\ IF v.buyin # 0 THEN RatEq(v.roi_percent, <<v.profit * 100, v.buyin>>)
                     ELSE IsZero(v.roi_percent)
                  /\ RatEq(v.abi, <<v.buyin, v.count>>)
        /\ FieldSum(groups, DOMAIN groups, "count") = Len(recs)

\* C10: aggregate_by_limits and aggregate_by_type return one group per key
\* present, in first-appearance order, each with the count and the sums over
\* exactly its records, roi_percent = profit / buyin * 100 (0 when buyin is
\* 0) and abi = buyin / count.
C10_GroupsByKey ==
    pc = "returned"
    => /\ GroupsAsClaimed(out.limits, inp.records,
             [i \in DOMAIN inp.records |-> TableTier(inp.records[i].buyin_total)])
       /\ GroupsAsClaimed(out.types, inp.records,
             [i \in DOMAIN inp.records |-> inp.records[i].t_type])

\* ------------------------------------------------------------------
\* main
\* ------------------------------------------------------------------

MaxFiles == 1

MaxRows == 2

MainLinePool == {L_good, L_odd, L_nodate}

MainFilePool ==
    {File(".csv", TRUE, Some(HeaderFull), ls) : ls \in SeqsUpTo(MainLinePool, MaxRows)}
    \cup {File(".txt", TRUE, Some(HeaderFull), <<L_good>>),
          File(".csv", TRUE, Some(HeaderNoResult), <<L_good>>),
          F_unopenable}

\* --input names nothing, a file, or a directory holding files
Inputs ==
    {[kind |-> "missing", entries |-> <<>>]}
    \cup {[kind |-> "file", entries |-> <<f>>] : f \in MainFilePool}
    \cup {[kind |-> "dir", entries |-> fs] : fs \in SeqsUpTo(MainFilePool, MaxFiles)}

MainArgs ==
    [mode : {"summaries", "hh"},
     currency : {None, Some(S_USD), Some(S_usd)},
     min_date : {None, A_0102, A_slashes},
     max_date : {None, A_0102, A_slashes}]

Init ==
    /\ pc = "discover"
    /\ input \in Inputs
    /\ args \in MainArgs
    /\ files = <<>>
    /\ records = <<>>
    /\ summary = <<>>
    /\ limits = <<>>
    /\ types = <<>>
    /\ csv_out = <<>>
    /\ exit_code = -1
    /\ fatal = "none"
    /\ inp = <<>>
    /\ out = <<>>

\* sys.exit(1) at the named place, or the interpreter ending on an exception
\* nothing catches (its exit status is 1 too)
Exit(code, why) ==
    /\ pc' = "done"
    /\ exit_code' = code
    /\ fatal' = why

\* files = discover_files(args.input, args.mode) and the check after it
Discover ==
    /\ pc = "discover"
    /\ IF input.kind = "missing"
       THEN Exit(1, "path_not_found") /\ UNCHANGED files
       ELSE /\ files' = discover_files(input, args.mode)
            /\ IF Len(files') = 0
               THEN Exit(1, "no_files")
               ELSE pc' = "load" /\ UNCHANGED <<exit_code, fatal>>
    /\ UNCHANGED <<input, args, records, summary, limits, types, csv_out, inp, out>>

\* records = load_summaries(...) and the check after it
Load ==
    /\ pc = "load"
    /\ records' = load_summaries(files)
    /\ IF Len(records') = 0
       THEN Exit(1, "no_records")
       ELSE pc' = "filter" /\ UNCHANGED <<exit_code, fatal>>
    /\ UNCHANGED <<input, args, files, summary, limits, types, csv_out, inp, out>>

\* records = filter_records(...) and the check after it; the ValueError of
\* strptime is caught nowhere
Filter ==
    /\ pc = "filter"
    /\ \E r \in {filter_records(records, args.currency, args.min_date, args.max_date)} :
          IF r.raised
          THEN Exit(1, "uncaught_exception") /\ UNCHANGED records
          ELSE /\ records' = r.result
               /\ IF Len(r.result) = 0
                  THEN Exit(1, "all_filtered")
                  ELSE pc' = "aggregate" /\ UNCHANGED <<exit_code, fatal>>
    /\ UNCHANGED <<input, args, files, summary, limits, types, csv_out, inp, out>>

\* the three aggregations (the printing that follows changes nothing)
Aggregate ==
    /\ pc = "aggregate"
    /\ summary' = aggregate_overall(records)
    /\ limits' = aggregate_by_limits(records)
    /\ types' = aggregate_by_type(records)
    /\ pc' = "save"
    /\ UNCHANGED <<input, args, files, records, csv_out, exit_code, fatal, inp, out>>

\* save_aggregated_csv and save_overall_json; either may end in an OSError
\* (the output directory cannot be made or written), caught nowhere
Save ==
    /\ pc = "save"
    /\ \E outcome \in {"ok", "csv_error", "json_error"} :
          /\ csv_out' = IF outcome = "csv_error" THEN <<>> ELSE CsvRows(records)
          /\ IF outcome = "ok" THEN Exit(0, "none") ELSE Exit(1, "uncaught_exception")
    /\ UNCHANGED <<input, args, files, records, summary, limits, types, inp, out>>

Next == Discover \/ Load \/ Filter \/ Aggregate \/ Save

Spec == Init /\ [][Next]_vars

\* ---- the pipeline's claims ----

FatalConditions == {"path_not_found", "no_files", "no_records", "all_filtered"}

\* C1: a run ends with exit code 1 exactly when one of the four fatal
\* conditions holds, and with exit code 0 in every other case, whatever the
\* command-line arguments are.
C1_ExitCodeOneIffFatal ==
    pc = "done"
    => /\ exit_code \in {0, 1}
       /\ exit_code = 1 <=> fatal \in FatalConditions

\* a is b with some elements left out
RECURSIVE IsSubseq(_, _)
IsSubseq(a, b) ==
    IF a = <<>> THEN TRUE
    ELSE IF b = <<>> THEN FALSE
    ELSE IF Head(a) = Head(b) THEN IsSubseq(Tail(a), Tail(b))
    ELSE IsSubseq(a, Tail(b))

ProfitHolds(r) == r.profit = r.prize - r.buyin_total

C7_ProfitOfEveryRecord ==
    /\ \A i \in DOMAIN records : ProfitHolds(records[i])
    /\ \A i \in DOMAIN csv_out : ProfitHolds(csv_out[i])

C7_RecordsOnlyRead ==
    /\ pc = "filter" => IsSubseq(records', records)
    /\ pc \in {"aggregate", "save"} => records' = records
    /\ (pc = "save" /\ csv_out' # <<>>)
       => /\ Len(csv_out') = Len(records)
          /\ \A i \in DOMAIN records :
                /\ csv_out'[i].buyin_total = records[i].buyin_total
                /\ csv_out'[i].prize = records[i].prize
                /\ csv_out'[i].profit = records[i].profit

\* C7: after loading, after filtering, during aggregation and in the CSV
\* artifact every record has profit = prize - buyinTotal (so the Profit cell
\* of the input is not what is kept), and filtering, aggregation and saving
\* leave the fields of every record as they were.
C7_ProfitDerivedAndKept == []C7_ProfitOfEveryRecord /\ [][C7_RecordsOnlyRead]_vars

\* a run over rows whose Profit cell differs from Result - BuyIn, in which
\* the filter dropped a record and the CSV was written
C7_Witness ==
    /\ pc = "done" /\ exit_code = 0
    /\ input.entries = <<File(".csv", TRUE, Some(HeaderFull), <<L_good, L_odd>>)>>
    /\ args.max_date = A_0102
    /\ Len(records) = 1
    /\ csv_out = CsvRows(records)
    /\ csv_out[1].profit = 15 * Scale

====
